---- MODULE Spec2Model ----
(***************************************************************************)
(* A model of fooof/synth/gen.py: the frequency vector builder, the        *)
(* single-spectrum generator and the batch generator, with the Python      *)
(* object model (numbers, list objects with identity, iterators) that the  *)
(* batch generator's behaviour depends on.                                 *)
(*                                                                         *)
(* Numbers are integers: every real quantity is counted in a common unit   *)
(* (frequencies in units of the resolution, noise levels in units of       *)
(* 0.005), so arithmetic is exact.                                         *)
(***************************************************************************)
EXTENDS Integers, Sequences, FiniteSets, TLC

VARIABLES
    fn,          \* the entry point called: "freqs", "single" or "group"
    pc,          \* position in the called function
    args,        \* the caller's arguments, as literals (never changed)
    heap,        \* list objects by address: heap[a] is the element sequence
    heap0,       \* the heap as the caller built it, before the call
    src,         \* the three parameter sources as the caller passed them
    its,         \* the three iterators after check_iter, with their positions
    zi,          \* position inside one step of zip (index into ZipOrder)
    ind,         \* loop index of gen_group_power_spectra
    cur,         \* bgp, gp, nlv of the current iteration
    xs,          \* the frequency vector
    ys,          \* the rows of the power matrix (or the single spectrum)
    syn_params,  \* the list of parameter records
    calls,       \* the calls of gen_power_vals made so far, with their dispatch
    err,         \* the exception that ended the call, "none" if none
    retRecs,     \* the contents of the records at the moment of return
    touched      \* the list changed after the return and its owner

vars == <<fn, pc, args, heap, heap0, src, its, zi, ind, cur, xs, ys,
          syn_params, calls, err, retRecs, touched>>

----------------------------------------------------------------------------
(* Bounds of the model *)

MaxSpectra == 3
MaxPeaks == 2
MaxFreq == 6
MaxRes == 4
MaxApLen == 4

(* Program constants, in model units *)

\* freq_res = 0.5 is the unit of frequency, nlvs = 0.005 the unit of noise
DefaultRes == 1
DefaultNlv == 1

\* the range [1, 50] Hz of the examples, in units of the default resolution
BatchFreqRange == <<2, 100>>

----------------------------------------------------------------------------
(* Python values: numbers, references to list objects, None *)

Num(k) == [t |-> "num", n |-> k]
Ref(a) == [t |-> "ref", n |-> a]
None == [t |-> "none", n |-> 0]

IsNum(v) == v.t = "num"
IsRef(v) == v.t = "ref"

NumList(s) == [i \in 1..Len(s) |-> Num(s[i])]
AllNums(l) == \A i \in 1..Len(l) : IsNum(l[i])

Max(a, b) == IF a >= b THEN a ELSE b

\* ceil(a / b) for b > 0
CeilDiv(a, b) == IF a % b = 0 THEN a \div b ELSE (a \div b) + 1

----------------------------------------------------------------------------
(* gen_freqs *)

\* numpy.arange(start, stop, step) for step > 0: ceil((stop - start) / step)
\* values start + k * step
Arange(start, stop, step) ==
    LET len == Max(0, CeilDiv(stop - start, step))
    IN  [i \in 1..len |-> start + (i - 1) * step]

\* GenFreqs without the extension of the stop value by one step
GenFreqsNoExtend(freq_range, freq_res) ==
    Arange(freq_range[1], freq_range[2], freq_res)

\* line 28
GenFreqs(freq_range, freq_res) ==
    Arange(freq_range[1], freq_range[2] + freq_res, freq_res)

----------------------------------------------------------------------------
(* Python's ordering and equality of values (lists compare element by      *)
(* element, then by length).  A number is never compared with a list in    *)
(* this model; Python would raise TypeError there.                         *)

RECURSIVE ValEq(_, _, _), ValLess(_, _, _)

FirstDiff(h, s, t) ==
    LET m == IF Len(s) <= Len(t) THEN Len(s) ELSE Len(t)
        d == {i \in 1..m : ~ValEq(h, s[i], t[i])}
    IN  IF d = {} THEN 0 ELSE CHOOSE i \in d : \A j \in d : i <= j

ValEq(h, a, b) ==
    IF a.t # b.t THEN FALSE
    ELSE IF a.t = "ref"
         THEN Len(h[a.n]) = Len(h[b.n]) /\ FirstDiff(h, h[a.n], h[b.n]) = 0
         ELSE a.n = b.n

ValLess(h, a, b) ==
    IF IsNum(a) /\ IsNum(b) THEN a.n < b.n
    ELSE IF IsRef(a) /\ IsRef(b)
         THEN LET i == FirstDiff(h, h[a.n], h[b.n])
              IN  IF i = 0 THEN Len(h[a.n]) < Len(h[b.n])
                  ELSE ValLess(h, h[a.n][i], h[b.n][i])
         ELSE FALSE

\* insertion of v into the sorted sequence s, after the elements not greater
RECURSIVE Insert(_, _, _)
Insert(h, s, v) ==
    IF s = <<>> THEN <<v>>
    ELSE IF ValLess(h, v, s[1]) THEN <<v>> \o s
         ELSE <<s[1]>> \o Insert(h, Tail(s), v)

RECURSIVE PySort(_, _)
PySort(h, s) ==
    IF s = <<>> THEN <<>>
    ELSE Insert(h, PySort(h, SubSeq(s, 1, Len(s) - 1)), s[Len(s)])

(* Operations on list objects.  Each returns the new heap h, the value v   *)
(* and err, the exception raised ("none" if none).                         *)

Ok(h, v) == [h |-> h, v |-> v, err |-> "none"]
Raise(h, e) == [h |-> h, v |-> None, err |-> e]

\* Sorted with the ordering left out: a new list in the caller's order
SortedUnsorted(h, l) ==
    IF ~IsRef(l) THEN Raise(h, "TypeError")
    ELSE Ok(Append(h, h[l.n]), Ref(Len(h) + 1))

\* sorted(l): a new list object holding l's elements in ascending order
Sorted(h, l) ==
    IF ~IsRef(l) THEN Raise(h, "TypeError")
    ELSE Ok(Append(h, PySort(h, h[l.n])), Ref(Len(h) + 1))

\* Copy without the copy: the very object the source yielded
CopyAlias(h, l) ==
    IF ~IsRef(l) THEN Raise(h, "AttributeError")
    ELSE Ok(h, l)

\* l.copy(): a new list object with the same elements; a number has no copy
Copy(h, l) ==
    IF ~IsRef(l) THEN Raise(h, "AttributeError")
    ELSE Ok(Append(h, h[l.n]), Ref(Len(h) + 1))

\* group_three(vec): a new list of new lists, the consecutive groups of three
GroupThree(h, vec) ==
    IF ~IsRef(vec) THEN Raise(h, "TypeError")
    ELSE LET s == h[vec.n]
             k == CeilDiv(Len(s), 3)
             hi(j) == IF 3 * j <= Len(s) THEN 3 * j ELSE Len(s)
             groups == [j \in 1..k |-> SubSeq(s, 3 * (j - 1) + 1, hi(j))]
             outer == [j \in 1..k |-> Ref(Len(h) + j)]
         IN  Ok(Append(h \o groups, outer), Ref(Len(h) + k + 1))

RECURSIVE Concat(_, _)
Concat(h, l) ==
    IF l = <<>> THEN <<>>
    ELSE (IF IsRef(l[1]) THEN h[l[1].n] ELSE <<l[1]>>) \o Concat(h, Tail(l))

\* check_flat(lst): a list of lists becomes a new flat list, a flat list is
\* returned as it is
CheckFlat(h, lst) ==
    IF ~IsRef(lst) THEN Raise(h, "TypeError")
    ELSE IF h[lst.n] # <<>> /\ IsRef(h[lst.n][1])
         THEN Ok(Append(h, Concat(h, h[lst.n])), Ref(Len(h) + 1))
         ELSE Ok(h, lst)

\* check_iter(obj, length), as the sequence of items the iterator yields:
\* a generator yields its own items, a list of exactly `length` elements
\* yields its elements, anything else is repeated `length` times
CheckIter(h, obj, length) ==
    IF obj.t = "gen" THEN obj.script
    ELSE IF obj.t = "ref" /\ Len(h[obj.n]) = length THEN h[obj.n]
         ELSE [i \in 1..length |-> [t |-> obj.t, n |-> obj.n]]

----------------------------------------------------------------------------
(* gen_aperiodic, gen_peaks, gen_power_vals *)

NoMode == ""

\* infer_ap_func(aperiodic_params): the mode by the number of parameters
InferApFunc(h, params) ==
    IF ~IsRef(params) THEN [mode |-> NoMode, err |-> "TypeError"]
    ELSE IF Len(h[params.n]) = 2 THEN [mode |-> "fixed", err |-> "none"]
    ELSE IF Len(h[params.n]) = 3 THEN [mode |-> "knee", err |-> "none"]
    ELSE [mode |-> NoMode, err |-> "InvalidParameterError"]

\* get_ap_func(mode): the number of parameters of the mode's function,
\* 0 for an unknown mode
GetApFunc(mode) ==
    IF mode = "fixed" THEN 2 ELSE IF mode = "knee" THEN 3 ELSE 0

\* ap_func(xs, *params): the function takes exactly `arity` numbers
ApFunc(h, arity, params) ==
    IF ~IsRef(params) \/ Len(h[params.n]) # arity THEN "TypeError"
    ELSE IF ~AllNums(h[params.n]) THEN "ValueError"
    ELSE "none"

ApResult(mode, e) == [mode |-> mode, err |-> e, produced |-> (e = "none")]

\* GenAperiodic with a default mode in place of the inference: without a
\* mode the 'fixed' function is used
GenAperiodicFixedDefault(h, aperiodic_params, aperiodic_mode) ==
    LET mode == IF aperiodic_mode = NoMode THEN "fixed" ELSE aperiodic_mode
        arity == GetApFunc(mode)
    IN  IF arity = 0 THEN ApResult(mode, "InvalidParameterError")
        ELSE ApResult(mode, ApFunc(h, arity, aperiodic_params))

GenAperiodic(h, aperiodic_params, aperiodic_mode) ==
    LET inf == IF aperiodic_mode = NoMode
               THEN InferApFunc(h, aperiodic_params)
               ELSE [mode |-> aperiodic_mode, err |-> "none"]
        arity == GetApFunc(inf.mode)
    IN  IF inf.err # "none" THEN ApResult(inf.mode, inf.err)
        ELSE IF arity = 0 THEN ApResult(inf.mode, "InvalidParameterError")
        ELSE ApResult(inf.mode, ApFunc(h, arity, aperiodic_params))

\* gaussian_function(xs, *gauss_params): numbers, three for each peak
GaussianFunction(h, params) ==
    IF ~IsRef(params) THEN "TypeError"
    ELSE IF Len(h[params.n]) % 3 # 0 THEN "InvalidParameterError"
    ELSE IF ~AllNums(h[params.n]) THEN "ValueError"
    ELSE "none"

GenPeaks(h, gauss_params) == GaussianFunction(h, gauss_params)

\* np.random.normal(0, nlv, len(xs)): the scale is one number
RandomNormal(nlv) == IF IsNum(nlv) THEN "none" ELSE "ValueError"

ZeroRow == [filled |-> FALSE, mode |-> NoMode, ap |-> <<>>, gp |-> <<>>,
            nlv |-> 0]

\* the record of one call of gen_power_vals: what was passed, how the
\* aperiodic mode was chosen, and the row of values it produced
CallRec(h, ap, gp, nlv, a, e) ==
    [ap |-> ap, gp |-> gp, nlv |-> nlv,
     apLen |-> IF IsRef(ap) THEN Len(h[ap.n]) ELSE -1,
     modeArg |-> NoMode, mode |-> a.mode, apErr |-> a.err,
     apProduced |-> a.produced, err |-> e,
     row |-> IF e = "none"
             THEN [filled |-> TRUE, mode |-> a.mode, ap |-> h[ap.n],
                   gp |-> h[gp.n], nlv |-> nlv.n]
             ELSE ZeroRow]

GenPowerVals(h, aperiodic_params, gauss_params, nlv) ==
    LET a == GenAperiodic(h, aperiodic_params, NoMode)
        p == GenPeaks(h, gauss_params)
        r == RandomNormal(nlv)
        e == IF a.err # "none" THEN a.err
             ELSE IF p # "none" THEN p
             ELSE r
    IN  CallRec(h, aperiodic_params, gauss_params, nlv, a, e)

----------------------------------------------------------------------------
(* The caller's arguments.  A parameter argument is a literal:             *)
(*   "scalar"  one number                                                   *)
(*   "single"  one list of numbers, sets[1]                                 *)
(*   "list"    a list of the lists in sets                                  *)
(*   "gen"     a generator yielding the lists in sets, each a new object    *)
(*   "gennum"  a generator yielding the numbers of sets[1]                  *)

Lit(kind, sets, num) == [kind |-> kind, sets |-> sets, num |-> num]

Source(t, n, script) == [t |-> t, n |-> n, script |-> script]

\* the caller builds the argument's objects on the heap h
Load(h, lit) ==
    LET m == Len(lit.sets)
        objs == [i \in 1..m |-> NumList(lit.sets[i])]
        refs == [i \in 1..m |-> Ref(Len(h) + i)]
    IN  CASE lit.kind = "scalar" ->
               [h |-> h, src |-> Source("num", lit.num, <<>>)]
          [] lit.kind = "single" ->
               [h |-> h \o objs, src |-> Source("ref", Len(h) + 1, <<>>)]
          [] lit.kind = "list" ->
               [h |-> Append(h \o objs, refs),
                src |-> Source("ref", Len(h) + m + 1, <<>>)]
          [] lit.kind = "gen" ->
               [h |-> h \o objs, src |-> Source("gen", 0, refs)]
          [] lit.kind = "gennum" ->
               [h |-> h, src |-> Source("gen", 0, NumList(lit.sets[1]))]

\* aperiodic parameter sets: one of each length, and a pool of distinct
\* valid ones (two parameters, every third one three)
ApSetOfLen(len) == [i \in 1..len |-> IF i = len THEN 2 ELSE 0]
ApPool(i) == IF i % 3 = 0 THEN <<i, 1, 2>> ELSE <<0, i>>

\* peaks: (center, amplitude, bandwidth), amplitudes in tenths beside unit
\* ones; two share their center
Triples == {<<10, 1, 1>>, <<20, 5, 1>>, <<10, 2, 1>>}

RECURSIVE FlatOf(_)
FlatOf(ts) == IF ts = <<>> THEN <<>> ELSE ts[1] \o FlatOf(Tail(ts))

TripleSeqs == UNION {[1..k -> Triples] : k \in 0..MaxPeaks}
GpPool(i) == IF i % 3 = 0 THEN <<>>
             ELSE IF i % 3 = 1 THEN <<10 * i, 1, 1>>
             ELSE <<20 * i, 5, 1, 10 * i, 1, 1>>

NlvPool(i) == i

ApPrefix(m) == [i \in 1..m |-> ApPool(i)]
GpPrefix(m) == [i \in 1..m |-> GpPool(i)]
NlvPrefix(m) == [i \in 1..m |-> NlvPool(i)]

\* a generator is short by one item, exact, or has one item to spare
GenLens(n) == {n - 1, n, n + 1}

ApLits(n) ==
    {Lit("single", <<ApSetOfLen(len)>>, 0) : len \in 1..MaxApLen}
    \cup {Lit("list", ApPrefix(m), 0) : m \in 1..MaxSpectra}
    \cup {Lit("gen", ApPrefix(m), 0) : m \in GenLens(n)}

GpLits(n) ==
    {Lit("single", <<FlatOf(ts)>>, 0) : ts \in TripleSeqs}
    \cup {Lit("list", ts, 0) : ts \in [1..2 -> Triples]}
    \cup {Lit("list", GpPrefix(m), 0) : m \in 1..MaxSpectra}
    \cup {Lit("gen", GpPrefix(m), 0) : m \in GenLens(n)}

NlvLits(n) ==
    {Lit("scalar", <<>>, DefaultNlv)}
    \cup {Lit("single", <<NlvPrefix(m)>>, 0) : m \in 2..MaxSpectra}
    \cup {Lit("gennum", <<NlvPrefix(m)>>, 0) : m \in GenLens(n)}

NoIter == [items |-> <<>>, pos |-> 0, asked |-> 0]
NoIters == [range |-> NoIter, ap |-> NoIter, gp |-> NoIter, nlv |-> NoIter]
NoCur == [range |-> None, ap |-> None, gp |-> None, nlv |-> None]

\* the state in which fn is called with the arguments a, the caller having
\* built the objects of the three parameter arguments
Called(f, a) ==
    LET l1 == Load(<<>>, a.ap)
        l2 == Load(l1.h, a.gp)
        l3 == Load(l2.h, a.nlv)
    IN  /\ fn = f
        /\ pc = "start"
        /\ args = a
        /\ heap = l3.h
        /\ heap0 = l3.h
        /\ src = [ap |-> l1.src, gp |-> l2.src, nlv |-> l3.src]
        /\ its = NoIters
        /\ zi = 1
        /\ ind = 0
        /\ cur = NoCur
        /\ xs = <<>>
        /\ ys = <<>>
        /\ syn_params = <<>>
        /\ calls = <<>>
        /\ err = "none"
        /\ retRecs = <<>>
        /\ touched = [who |-> 0, addr |-> 0]

Args(n, range, res, ap, gp, nlv) ==
    [n_spectra |-> n, freq_range |-> range, freq_res |-> res,
     ap |-> ap, gp |-> gp, nlv |-> nlv]

InitGroup ==
    \E n \in 1..MaxSpectra :
      \E ap \in ApLits(n), gp \in GpLits(n), nlv \in NlvLits(n) :
        Called("group", Args(n, BatchFreqRange, DefaultRes, ap, gp, nlv))

InitSingle ==
    \E ap \in {l \in ApLits(1) : l.kind = "single"},
       gp \in {l \in GpLits(1) : l.kind \in {"single", "list"}} :
        Called("single", Args(0, BatchFreqRange, DefaultRes, ap, gp,
                              Lit("scalar", <<>>, DefaultNlv)))

Init == InitGroup \/ InitSingle

InitFreqs ==
    \E lo \in 0..MaxFreq, hi \in 0..MaxFreq, res \in 1..MaxRes :
        /\ lo < hi
        /\ Called("freqs", Args(0, <<lo, hi>>, res, Lit("scalar", <<>>, 0),
                                Lit("scalar", <<>>, 0), Lit("scalar", <<>>, 0)))

----------------------------------------------------------------------------
(* gen_group_power_spectra *)

PyVal(s) == [t |-> s.t, n |-> s.n]

NoRecord == [filled |-> FALSE, ap |-> None, gp |-> None, nlv |-> None]

Iter(items) == [items |-> items, pos |-> 0, asked |-> 0]

\* Range off by one: the indices start at one
RangeFromOne(n) == [i \in 1..n |-> Num(i)]

\* range(n_spectra)
Range(n) == [i \in 1..n |-> Num(i - 1)]

\* ZipOrder with the index range as the last argument of zip
ZipOrderRangeLast == <<"ap", "gp", "nlv", "range">>

\* zip asks its arguments for their next item from left to right and stops
\* at the first that has none
ZipOrder == <<"range", "ap", "gp", "nlv">>

\* SynParams(bgp.copy(), sorted(group_three(gp)), nlv)
SynParams(h, bgp, gp, nlv) ==
    LET c == Copy(h, bgp)
        g == GroupThree(c.h, gp)
        s == Sorted(g.h, g.v)
    IN  IF c.err # "none" THEN Raise(c.h, c.err)
        ELSE IF g.err # "none" THEN Raise(g.h, g.err)
        ELSE IF s.err # "none" THEN Raise(s.h, s.err)
        ELSE [h |-> s.h,
              v |-> [filled |-> TRUE, ap |-> c.v, gp |-> s.v, nlv |-> nlv],
              err |-> "none"]

\* the elements of the list l, each list element by its own elements
Elements(h, l) ==
    [k \in 1..Len(l) |-> IF IsRef(l[k]) THEN h[l[k].n] ELSE <<l[k]>>]

\* what a record reports: its parameters by value
Reported(h, rec) ==
    IF ~rec.filled THEN [filled |-> FALSE, ap |-> <<>>, gp |-> <<>>,
                         nlv |-> None]
    ELSE [filled |-> TRUE, ap |-> h[rec.ap.n],
          gp |-> Elements(h, h[rec.gp.n]), nlv |-> rec.nlv]

\* lines 145-152
Initialize ==
    /\ fn = "group"
    /\ pc = "start"
    /\ xs' = GenFreqs(args.freq_range, args.freq_res)
    /\ ys' = [i \in 1..args.n_spectra |-> ZeroRow]
    /\ syn_params' = [i \in 1..args.n_spectra |-> NoRecord]
    /\ its' = [range |-> Iter(Range(args.n_spectra)),
               ap |-> Iter(CheckIter(heap, src.ap, args.n_spectra)),
               gp |-> Iter(CheckIter(heap, src.gp, args.n_spectra)),
               nlv |-> Iter(CheckIter(heap, src.nlv, args.n_spectra))]
    /\ zi' = 1
    /\ pc' = "zip"
    /\ UNCHANGED <<fn, args, heap, heap0, src, ind, cur, calls, err, retRecs,
                   touched>>

\* line 155: zip asks one of its arguments for the next item; with the last
\* item of a tuple the loop variables are bound and the body is entered
ZipStep ==
    /\ fn = "group"
    /\ pc = "zip"
    /\ LET who == ZipOrder[zi]
           it == its[who]
       IN  IF it.pos < Len(it.items)
           THEN /\ its' = [its EXCEPT ![who] =
                              [it EXCEPT !.pos = @ + 1, !.asked = @ + 1]]
                /\ cur' = [cur EXCEPT ![who] = it.items[it.pos + 1]]
                /\ IF zi = Len(ZipOrder)
                   THEN /\ pc' = "body"
                        /\ zi' = 1
                        /\ ind' = cur'.range.n
                   ELSE /\ pc' = "zip"
                        /\ zi' = zi + 1
                        /\ ind' = ind
           ELSE /\ its' = [its EXCEPT ![who] = [it EXCEPT !.asked = @ + 1]]
                /\ pc' = "return"
                /\ UNCHANGED <<cur, zi, ind>>
    /\ UNCHANGED <<fn, args, heap, heap0, src, xs, ys, syn_params, calls, err,
                   retRecs, touched>>

\* line 157
Record ==
    /\ fn = "group"
    /\ pc = "body"
    /\ LET r == SynParams(heap, cur.ap, cur.gp, cur.nlv)
       IN  /\ heap' = r.h
           /\ IF r.err # "none"
              THEN /\ pc' = "raised"
                   /\ err' = r.err
                   /\ UNCHANGED syn_params
              ELSE /\ pc' = "vals"
                   /\ syn_params' = [syn_params EXCEPT ![ind + 1] = r.v]
                   /\ UNCHANGED err
    /\ UNCHANGED <<fn, args, heap0, src, its, zi, ind, cur, xs, ys, calls,
                   retRecs, touched>>

\* line 158
Compute ==
    /\ fn = "group"
    /\ pc = "vals"
    /\ LET c == GenPowerVals(heap, cur.ap, cur.gp, cur.nlv)
       IN  /\ calls' = Append(calls, c)
           /\ IF c.err # "none"
              THEN /\ pc' = "raised"
                   /\ err' = c.err
                   /\ UNCHANGED ys
              ELSE /\ pc' = "zip"
                   /\ ys' = [ys EXCEPT ![ind + 1] = c.row]
                   /\ UNCHANGED err
    /\ UNCHANGED <<fn, args, heap, heap0, src, its, zi, ind, cur, xs,
                   syn_params, retRecs, touched>>

\* line 160
Return ==
    /\ fn = "group"
    /\ pc = "return"
    /\ pc' = "returned"
    /\ retRecs' = [i \in 1..Len(syn_params) |-> Reported(heap, syn_params[i])]
    /\ UNCHANGED <<fn, args, heap, heap0, src, its, zi, ind, cur, xs, ys,
                   syn_params, calls, err, touched>>

\* after the return the caller changes one list in place: one of its own
\* (who = 0) or a list of record who
Poison == Num(-1)

ChangeAfterReturn ==
    /\ fn = "group"
    /\ pc = "returned"
    /\ touched.addr = 0
    /\ \E t \in [who : {0}, addr : 1..Len(heap0)]
               \cup {[who |-> i, addr |-> syn_params[i][f].n] :
                       i \in {j \in 1..Len(syn_params) : syn_params[j].filled},
                       f \in {"ap", "gp"}} :
          /\ touched' = t
          /\ heap' = [heap EXCEPT ![t.addr] = Append(@, Poison)]
    /\ pc' = "changed"
    /\ UNCHANGED <<fn, args, heap0, src, its, zi, ind, cur, xs, ys,
                   syn_params, calls, err, retRecs>>

----------------------------------------------------------------------------
(* gen_power_spectrum, lines 81-84 *)

GenPowerSpectrum ==
    /\ fn = "single"
    /\ pc = "start"
    /\ xs' = GenFreqs(args.freq_range, args.freq_res)
    /\ LET f == CheckFlat(heap, PyVal(src.gp))
           c == GenPowerVals(f.h, PyVal(src.ap), f.v, PyVal(src.nlv))
       IN  /\ heap' = f.h
           /\ calls' = <<c>>
           /\ IF c.err # "none"
              THEN /\ pc' = "raised"
                   /\ err' = c.err
                   /\ UNCHANGED ys
              ELSE /\ pc' = "returned"
                   /\ ys' = <<c.row>>
                   /\ UNCHANGED err
    /\ UNCHANGED <<fn, args, heap0, src, its, zi, ind, cur, syn_params,
                   retRecs, touched>>

(* a call of gen_freqs alone *)

CallGenFreqs ==
    /\ fn = "freqs"
    /\ pc = "start"
    /\ xs' = GenFreqs(args.freq_range, args.freq_res)
    /\ pc' = "returned"
    /\ UNCHANGED <<fn, args, heap, heap0, src, its, zi, ind, cur, ys,
                   syn_params, calls, err, retRecs, touched>>

----------------------------------------------------------------------------

Next ==
    \/ Initialize
    \/ ZipStep
    \/ Record
    \/ Compute
    \/ Return
    \/ ChangeAfterReturn
    \/ GenPowerSpectrum

Spec == Init /\ [][Next]_vars

NextFreqs == CallGenFreqs

SpecFreqs == InitFreqs /\ [][NextFreqs]_vars

----------------------------------------------------------------------------
(* Vocabulary of the properties *)

N == args.n_spectra
Sources == {"ap", "gp", "nlv"}
Normalized == pc # "start"
Finished == pc \in {"returned", "changed"}

\* every source yields at least n_spectra items
Sufficient == \A x \in Sources : Len(its[x].items) >= N

\* the consecutive triples of a flat sequence
TriplesOf(s) == [j \in 1..(Len(s) \div 3) |-> SubSeq(s, 3 * j - 2, 3 * j)]

Count(p, x) == Cardinality({j \in 1..Len(p) : p[j] = x})
IsPermutation(p, q) ==
    /\ Len(p) = Len(q)
    /\ \A j \in 1..Len(p) : Count(p, p[j]) = Count(q, p[j])

\* default tuple ordering of two triples of numbers
TripleLeq(a, b) ==
    \/ a[1].n < b[1].n
    \/ a[1].n = b[1].n /\ a[2].n < b[2].n
    \/ a[1].n = b[1].n /\ a[2].n = b[2].n /\ a[3].n <= b[3].n

Ascending(p) == \A j \in 1..(Len(p) - 1) : TripleLeq(p[j], p[j + 1])

\* a flat list of 3k numbers
IsFlatPeaks(h, v) ==
    IsRef(v) /\ AllNums(h[v.n]) /\ Len(h[v.n]) % 3 = 0

\* one fixed aperiodic set, one fixed flat peak set, one noise level
FixedInputs ==
    /\ fn = "group"
    /\ args.ap.kind = "single" /\ Len(args.ap.sets[1]) \in {2, 3}
    /\ args.gp.kind = "single" /\ Len(args.gp.sets[1]) % 3 = 0
    /\ args.nlv.kind = "scalar"

\* the caller passed the peaks as a list of 3-element groups
GroupedPeaks ==
    /\ fn \in {"single", "group"}
    /\ args.gp.kind = "list"
    /\ \A j \in 1..Len(args.gp.sets) : Len(args.gp.sets[j]) = 3

\* C1: with one fixed aperiodic set, one fixed flat peak set and a scalar
\* noise level the call returns, for every n_spectra, and every one of the
\* n_spectra records reports that aperiodic set, that peak set grouped into
\* triples and that noise level.
C1_BatchFidelity ==
    (FixedInputs /\ pc \in {"raised", "returned"}) =>
        /\ pc = "returned"
        /\ Len(retRecs) = N
        /\ \A i \in 1..N :
             /\ retRecs[i].filled
             /\ retRecs[i].ap = NumList(args.ap.sets[1])
             /\ IsPermutation(retRecs[i].gp,
                              TriplesOf(NumList(args.gp.sets[1])))
             /\ retRecs[i].nlv = Num(args.nlv.num)

\* C2: a call in which a source yields fewer than n_spectra items never
\* returns a result; whatever is returned has every record and every row
\* filled.
C2_ExhaustionIsError ==
    (fn = "group" /\ pc = "returned") =>
        /\ Sufficient
        /\ \A i \in 1..N : syn_params[i].filled /\ ys[i].filled

\* C3: when every source yields at least n_spectra items, what is returned
\* is n_spectra records and n_spectra rows, and record i and row i are both
\* made from the i-th item of each source; a list of n_spectra sets, and a
\* generator, are applied in order.
C3_IndexAlignment ==
    (fn = "group" /\ pc = "returned" /\ Sufficient) =>
        /\ Len(syn_params) = N
        /\ Len(ys) = N
        /\ \A i \in 1..N :
             LET rec == syn_params[i]
                 a == its.ap.items[i]
                 g == its.gp.items[i]
                 v == its.nlv.items[i]
             IN  /\ rec.filled /\ ys[i].filled
                 /\ IsRef(a) /\ IsRef(g) /\ IsNum(v)
                 /\ heap[rec.ap.n] = heap0[a.n]
                 /\ IsPermutation(Elements(heap, heap[rec.gp.n]),
                                  TriplesOf(heap0[g.n]))
                 /\ rec.nlv = v
                 /\ ys[i].ap = heap0[a.n]
                 /\ ys[i].gp = heap0[g.n]
                 /\ ys[i].nlv = v.n
                 /\ (args.ap.kind = "gen"
                       \/ (args.ap.kind = "list" /\ Len(args.ap.sets) = N))
                      => heap[rec.ap.n] = NumList(args.ap.sets[i])
                 /\ (args.gp.kind = "gen"
                       \/ (args.gp.kind = "list" /\ Len(args.gp.sets) = N))
                      => ys[i].gp = NumList(args.gp.sets[i])

C3_Witness ==
    /\ fn = "group" /\ pc = "returned" /\ Sufficient
    /\ N = 3
    /\ args.ap.kind = "list" /\ Len(args.ap.sets) = 3
    /\ args.gp.kind = "gen"
    /\ args.nlv.kind = "gennum"
    /\ \A i \in 1..3 : syn_params[i].filled

\* C4: the peak field of a record made from a flat sequence of 3k numbers
\* is k triples, a permutation of the consecutive triples of the sequence,
\* in ascending tuple order.
C4_GroupedSorted ==
    (fn = "group" /\ pc # "changed") =>
        \A i \in 1..Len(syn_params) :
            (syn_params[i].filled /\ IsFlatPeaks(heap0, its.gp.items[i])) =>
                LET flat == heap0[its.gp.items[i].n]
                    peaks == Elements(heap, heap[syn_params[i].gp.n])
                IN  /\ Len(peaks) = Len(flat) \div 3
                    /\ IsPermutation(peaks, TriplesOf(flat))
                    /\ Ascending(peaks)

C4_Witness ==
    /\ fn = "group" /\ pc = "returned"
    /\ args.gp.kind = "single"
    /\ args.gp.sets[1] = <<20, 5, 1, 10, 1, 1>>
    /\ syn_params[1].filled
    /\ Elements(heap, heap[syn_params[1].gp.n])
         = <<NumList(<<10, 1, 1>>), NumList(<<20, 5, 1>>)>>

\* C5: gen_power_vals calls gen_aperiodic without a mode, and then two
\* parameters dispatch to 'fixed', three to 'knee', and any other number
\* raises InvalidParameterError and produces no values.
C5_ModeInference ==
    \A i \in 1..Len(calls) :
        LET c == calls[i]
        IN  /\ c.modeArg = NoMode
            /\ c.apLen = 2 => c.mode = "fixed"
            /\ c.apLen = 3 => c.mode = "knee"
            /\ (c.apLen >= 0 /\ c.apLen \notin {2, 3}) =>
                   /\ c.apErr = "InvalidParameterError"
                   /\ ~c.apProduced
                   /\ ~c.row.filled

C5_Witness ==
    /\ fn = "group" /\ pc = "returned"
    /\ Len(calls) = 3
    /\ calls[1].apLen = 2 /\ calls[1].mode = "fixed" /\ calls[1].apProduced
    /\ calls[3].apLen = 3 /\ calls[3].mode = "knee" /\ calls[3].apProduced

C5_WitnessInvalid ==
    /\ pc = "raised"
    /\ calls # <<>>
    /\ calls[Len(calls)].apLen = 4
    /\ err = "InvalidParameterError"

C7_WithinRange ==
    (fn = "freqs" /\ pc = "returned") =>
        LET lo == args.freq_range[1]
            hi == args.freq_range[2]
            r == args.freq_res
        IN  /\ \A i \in 1..Len(xs) : xs[i] <= hi
            /\ {xs[i] : i \in 1..Len(xs)}
                 = {lo + k * r : k \in {j \in 0..(hi - lo) : lo + j * r <= hi}}

\* C8: items are pulled in step: no source is ever asked for more than
\* n_spectra items, while spectrum ind is made exactly ind + 1 items have
\* been pulled from each source and the ones in use are the ind-th, and
\* after a call that made all n_spectra spectra exactly n_spectra items
\* have been pulled from each source.
C8_SinglePass ==
    (fn = "group" /\ Normalized) =>
        /\ \A x \in Sources : its[x].asked <= N /\ its[x].pos <= its[x].asked
        /\ pc \in {"body", "vals"} =>
             \A x \in Sources :
                 /\ its[x].pos = ind + 1
                 /\ its[x].asked = ind + 1
                 /\ cur[x] = its[x].items[ind + 1]
        /\ (Finished /\ Sufficient) =>
             \A x \in Sources : its[x].pos = N /\ its[x].asked = N

C8_Witness ==
    /\ fn = "group" /\ pc = "returned"
    /\ N = 3
    /\ args.ap.kind = "gen" /\ args.gp.kind = "gen"
    /\ args.nlv.kind = "gennum"
    /\ \A x \in Sources : Len(its[x].items) = N + 1 /\ its[x].pos = N
    /\ Len(calls) = N

\* C9: when the caller passes the peaks as a list of 3-element groups, to
\* gen_power_spectrum or to gen_group_power_spectra, what reaches
\* gen_power_vals is a flat list of numbers, three for each peak.
C9_FlatAtPeakGenerator ==
    GroupedPeaks =>
        \A i \in 1..Len(calls) : IsFlatPeaks(heap, calls[i].gp)

\* C10: the call leaves the caller's lists as they were; the aperiodic list
\* and the peak list of a record are new objects, none of them the caller's
\* or another record's; and a later change of a caller's list or of one
\* record's list changes what no other record reports.
C10_NoAliasing ==
    fn = "group" =>
        /\ pc # "changed" => SubSeq(heap, 1, Len(heap0)) = heap0
        /\ \A i \in 1..Len(syn_params) : syn_params[i].filled =>
             /\ syn_params[i].ap.n > Len(heap0)
             /\ syn_params[i].gp.n > Len(heap0)
             /\ syn_params[i].ap.n # syn_params[i].gp.n
             /\ \A j \in 1..Len(syn_params) :
                  (j # i /\ syn_params[j].filled) =>
                      {syn_params[i].ap.n, syn_params[i].gp.n}
                        \cap {syn_params[j].ap.n, syn_params[j].gp.n} = {}
        /\ pc = "changed" =>
             \A i \in 1..Len(syn_params) :
                 i # touched.who =>
                     Reported(heap, syn_params[i]) = retRecs[i]

C10_Witness ==
    /\ fn = "group" /\ pc = "changed"
    /\ N >= 2
    /\ args.ap.kind = "single"
    /\ touched.who = 0
    /\ touched.addr = its.ap.items[1].n
    /\ \A i \in 1..N : syn_params[i].filled

====
